---- MODULE Spec2Model ----
(***************************************************************************)
(* Model of the two solvers of the repository:                            *)
(*   - EvaporateurMultiple (evaporateurs.py): constructor validation,      *)
(*     bilan_matiere and simuler;                                          *)
(*   - simuler_cristallisation_batch (cristallisation.py);                 *)
(*   - lmtd (thermodynamique.py).                                          *)
(*                                                                         *)
(* Numbers.  The code computes in IEEE doubles.  The model uses            *)
(*   - exact rationals [n, d] for the mass balance of the train (flows and *)
(*     mass fractions);                                                    *)
(*   - decimal floating point [m, e] (value m * 10^e, four significant     *)
(*     digits, truncating) for quantities of wide range (temperatures,     *)
(*     duties, areas, steam and economy of the train, crystal kinetics,    *)
(*     number densities);                                                  *)
(*   - fixed point integers for the crystallizer's T, C, Cs and time.      *)
(***************************************************************************)
EXTENDS Integers, Sequences, FiniteSets, TLC

VARIABLES epc, args, self, res,
          cpc, cargs, tvec, it, T_cur, C_cur, n_cur, hist,
          lpc, largs, lres

\* the evaporator train: where the caller is, the constructor's arguments,
\* the object built and the dictionary simuler returned
evars == <<epc, args, self, res>>

\* the crystallizer: where the call is, its arguments, np.arange's vector,
\* the number of iterations done, and the locals T, C, n and hist
cvars == <<cpc, cargs, tvec, it, T_cur, C_cur, n_cur, hist>>

\* lmtd: where the call is, its two arguments and the value returned
lvars == <<lpc, largs, lres>>

vars == <<epc, args, self, res, cpc, cargs, tvec, it, T_cur, C_cur, n_cur, hist,
          lpc, largs, lres>>

----------------------------------------------------------------------------
(* Integer helpers *)

Abs(a) == IF a < 0 THEN -a ELSE a

\* quotient truncated toward zero
Quot(a, b) == IF (a >= 0) = (b > 0) THEN Abs(a) \div Abs(b) ELSE -(Abs(a) \div Abs(b))

RECURSIVE GCD(_, _)
GCD(a, b) == IF b = 0 THEN a ELSE GCD(b, a % b)

RECURSIVE Pow10(_)
Pow10(k) == IF k <= 0 THEN 1 ELSE 10 * Pow10(k - 1)

----------------------------------------------------------------------------
(* Exact rationals: [n |-> numerator, d |-> denominator > 0], in lowest terms *)

Rat(n, d) ==
    LET g == GCD(Abs(n), Abs(d))
        s == IF d < 0 THEN -1 ELSE 1
    IN  [n |-> s * (n \div g), d |-> s * (d \div g)]

RInt(i) == [n |-> i, d |-> 1]

RMul(a, b) ==
    LET g1 == GCD(Abs(a.n), b.d)
        g2 == GCD(Abs(b.n), a.d)
        h1 == IF g1 = 0 THEN 1 ELSE g1
        h2 == IF g2 = 0 THEN 1 ELSE g2
    IN  Rat((a.n \div h1) * (b.n \div h2), (a.d \div h2) * (b.d \div h1))

\* b # 0
RDiv(a, b) == RMul(a, IF b.n < 0 THEN [n |-> -b.d, d |-> -b.n] ELSE [n |-> b.d, d |-> b.n])

RAdd(a, b) ==
    LET g == GCD(a.d, b.d)
    IN  Rat(a.n * (b.d \div g) + b.n * (a.d \div g), (a.d \div g) * b.d)

RNeg(a) == [n |-> -a.n, d |-> a.d]

RSub(a, b) == RAdd(a, RNeg(b))

RLt(a, b) == RSub(a, b).n < 0

RLe(a, b) == RSub(a, b).n <= 0

RZero == RInt(0)

\* the quotient 0.0 / 0.0 of numpy floats (a warning, not an exception)
RNaN == [n |-> 0, d |-> 0]

RMulNaN(a, b) == IF a = RNaN \/ b = RNaN THEN RNaN ELSE RMul(a, b)

\* a / b over numpy floats; where b is 0 here, a is 0 or nan as well
RDivNaN(a, b) == IF a = RNaN \/ b = RNaN \/ b.n = 0 THEN RNaN ELSE RDiv(a, b)

----------------------------------------------------------------------------
(* Decimal floating point: [m |-> mantissa, e |-> exponent], value m * 10^e, *)
(* 1000 <= |m| <= 9999 or m = 0.                                            *)

RECURSIVE FNorm(_, _)
FNorm(m, e) ==
    IF m = 0 THEN [m |-> 0, e |-> 0]
    ELSE IF Abs(m) >= 10000 THEN FNorm(Quot(m, 10), e + 1)
    ELSE IF Abs(m) < 1000 THEN FNorm(m * 10, e - 1)
    ELSE [m |-> m, e |-> e]

FZero == [m |-> 0, e |-> 0]

\* not-a-number: it passes through the arithmetic and compares false
FNaN == [m |-> 0, e |-> 0, nan |-> TRUE]

IsNaN(a) == "nan" \in DOMAIN a

FInt(i) == FNorm(i, 0)

FNeg(a) == IF IsNaN(a) THEN FNaN ELSE [m |-> -a.m, e |-> a.e]

FMul(a, b) == IF IsNaN(a) \/ IsNaN(b) THEN FNaN ELSE FNorm(a.m * b.m, a.e + b.e)

\* b # 0
FDiv(a, b) ==
    IF IsNaN(a) \/ IsNaN(b) THEN FNaN
    ELSE FNorm(Quot(a.m * 100000, b.m), a.e - b.e - 5)

FAddOrd(hi, lo) ==
    LET d == hi.e - lo.e
    IN  IF d >= 8 THEN hi
        ELSE FNorm(hi.m * 10000 + Quot(lo.m * 10000, Pow10(d)), hi.e - 4)

FAdd(a, b) ==
    IF IsNaN(a) \/ IsNaN(b) THEN FNaN
    ELSE IF a.m = 0 THEN b
    ELSE IF b.m = 0 THEN a
    ELSE IF a.e >= b.e THEN FAddOrd(a, b) ELSE FAddOrd(b, a)

FSub(a, b) == FAdd(a, FNeg(b))

FLt(a, b) == ~IsNaN(FSub(a, b)) /\ FSub(a, b).m < 0

FLe(a, b) == ~IsNaN(FSub(a, b)) /\ FSub(a, b).m <= 0

\* Python's max(a, b): b only if b > a
FMax(a, b) == IF FLt(a, b) THEN b ELSE a

FRat(r) == IF r = RNaN THEN FNaN ELSE FDiv(FInt(r.n), FInt(r.d))

\* floor(a * b / c) for a, b >= 0 and c > 0, without forming a * b
RECURSIVE MulDivQR(_, _, _)
MulDivQR(a, b, c) ==
    IF b = 0 THEN [q |-> 0, r |-> 0]
    ELSE LET h == MulDivQR(a, b \div 2, c)
             t == 2 * h.r + (IF b % 2 = 1 THEN a % c ELSE 0)
         IN  [q |-> 2 * h.q + (IF b % 2 = 1 THEN a \div c ELSE 0) + t \div c, r |-> t % c]

\* a * b / c truncated toward zero, c > 0
MulDiv(a, b, c) ==
    LET q == MulDivQR(Abs(a), Abs(b), c).q
    IN  IF (a >= 0) = (b >= 0) THEN q ELSE -q

\* largest r with r * r <= v, for 0 <= v
RECURSIVE ISqrtIn(_, _, _)
ISqrtIn(v, lo, hi) ==
    IF lo >= hi THEN lo
    ELSE LET mid == (lo + hi + 1) \div 2
         IN  IF mid * mid <= v THEN ISqrtIn(v, mid, hi) ELSE ISqrtIn(v, lo, mid - 1)

ISqrt(v) == ISqrtIn(v, 0, 46340)

\* square root of a >= 0
FSqrt(a) ==
    IF a.m <= 0 THEN FZero
    ELSE IF a.e % 2 = 0 THEN FNorm(ISqrt(a.m * 10000), (a.e - 4) \div 2)
    ELSE FNorm(ISqrt(a.m * 100000), (a.e - 5) \div 2)

\* a ^ k for an integer k >= 0
RECURSIVE FPowInt(_, _)
FPowInt(a, k) ==
    IF k = 0 THEN FInt(1)
    ELSE LET h == FPowInt(a, k \div 2)
         IN  IF k % 2 = 0 THEN FMul(h, h) ELSE FMul(FMul(h, h), a)

\* the integer a * 10^k, truncated toward zero
FFix(a, k) ==
    IF a.e + k >= 0 THEN a.m * Pow10(a.e + k) ELSE
    IF a.e + k < -5 THEN 0 ELSE Quot(a.m, Pow10(-(a.e + k)))

\* exp(-r / 10000) * 10000 for 0 <= r < 10000: the series to the ninth power
ExpSeries(r) ==
    LET t1 == r
        t2 == (t1 * r) \div 20000
        t3 == (t2 * r) \div 30000
        t4 == (t3 * r) \div 40000
        t5 == (t4 * r) \div 50000
        t6 == (t5 * r) \div 60000
        t7 == (t6 * r) \div 70000
        t8 == (t7 * r) \div 80000
        t9 == (t8 * r) \div 90000
    IN  10000 - t1 + t2 - t3 + t4 - t5 + t6 - t7 + t8 - t9

\* exp(-y) for y >= 0; as in doubles, 0 once y is above 745
FExpNeg(y) ==
    IF FLt(FInt(745), y) THEN FZero
    ELSE LET y4 == FFix(y, 4)
         IN  FMul(FNorm(ExpSeries(y4 % 10000), -4),
                  FPowInt(FNorm(3679, -4), y4 \div 10000))

\* exp(x)
FExp(x) == IF x.m <= 0 THEN FExpNeg(FNeg(x)) ELSE FDiv(FInt(1), FExpNeg(x))

FAbs(a) == [m |-> Abs(a.m), e |-> a.e]

\* 2 * atanh(z) for |z| <= 1/3: the series to the eleventh power
AtanhSeries(z) ==
    LET z2  == FMul(z, z)
        t3  == FMul(z, z2)
        t5  == FMul(t3, z2)
        t7  == FMul(t5, z2)
        t9  == FMul(t7, z2)
        t11 == FMul(t9, z2)
        sum == FAdd(FAdd(FAdd(FAdd(FAdd(FDiv(t11, FInt(11)), FDiv(t9, FInt(9))),
                                   FDiv(t7, FInt(7))), FDiv(t5, FInt(5))),
                         FDiv(t3, FInt(3))), z)
    IN  FMul(FInt(2), sum)

\* log(x) for 1/2 <= x <= 2, through x - 1 so that log(x) # 0 whenever x # 1
LnNear(x) == AtanhSeries(FDiv(FSub(x, FInt(1)), FAdd(x, FInt(1))))

\* log(y * 2^k) for y >= 1
RECURSIVE LnReduce(_, _)
LnReduce(y, k) ==
    IF FLt(y, FInt(2)) THEN FAdd(LnNear(y), FMul(FInt(k), FNorm(6931, -4)))
    ELSE LnReduce(FDiv(y, FInt(2)), k + 1)

\* log(x) for x > 0
FLn(x) ==
    IF FLe(FNorm(5, -1), x) /\ FLe(x, FInt(2)) THEN LnNear(x)
    ELSE FAdd(LnReduce([m |-> x.m, e |-> -3], 0), FMul(FInt(x.e + 3), FNorm(2302, -3)))

----------------------------------------------------------------------------
(* Saturation properties of water (the PropsSI calls of evaporateurs.py).   *)
(* Pressures are integers in units of 1/PUnit bar, which makes every effect *)
(* pressure of np.linspace(2.5, 0.15, n), n in 2..5, an integer.            *)
(* Rows: <<P, saturation temperature in 0.01 degC, latent heat in 0.1 kJ/kg>>*)
(* (saturated steam table, 0.05 bar .. 20 bar); linear between rows.        *)

PUnit == 1200

SteamTable ==
    << <<60, 3287, 24230>>,    <<120, 4581, 23921>>,   <<180, 5397, 23723>>,
       <<240, 6006, 23575>>,   <<300, 6496, 23455>>,   <<360, 6909, 23353>>,
       <<480, 7586, 23184>>,   <<600, 8132, 23047>>,   <<900, 9176, 22780>>,
       <<1200, 9961, 22575>>,  <<1500, 10597, 22406>>, <<1800, 11135, 22260>>,
       <<2100, 11604, 22131>>, <<2400, 12021, 22016>>, <<2700, 12397, 21910>>,
       <<3000, 12741, 21812>>, <<3300, 13058, 21720>>, <<3600, 13352, 21635>>,
       <<3900, 13627, 21554>>, <<4200, 13886, 21477>>, <<4500, 14130, 21404>>,
       <<4800, 14361, 21334>>, <<5400, 14790, 21203>>, <<6000, 15183, 21080>>,
       <<12000, 17988, 20146>>, <<24000, 21238, 18898>> >>

PropsSI(col, P) ==
    LET i  == CHOOSE j \in 1..(Len(SteamTable) - 1) :
                  SteamTable[j][1] <= P /\ P <= SteamTable[j + 1][1]
        lo == SteamTable[i]
        hi == SteamTable[i + 1]
    IN  lo[col] + Quot((hi[col] - lo[col]) * (P - lo[1]), hi[1] - lo[1])

\* saturation temperature of water (degC) at P
Tsat_eau(P) == FNorm(PropsSI(2, P), -2)

\* latent heat of vaporisation (J/kg) at P
chaleur_latente_bar(P) == FNorm(PropsSI(3, P), 2)

\* boiling point elevation (degC) against the sucrose mass fraction
EPE_duhring(xm) ==
    LET x == FMul(xm, FInt(100))
        A == IF FLt(x, FInt(50)) THEN FNorm(3, -2) ELSE FNorm(45, -3)
        B == IF FLt(x, FInt(50)) THEN FNorm(15, -5) ELSE FNorm(30, -5)
    IN  FAdd(FMul(A, x), FMul(FMul(B, x), x))

Teb_solution(P, xm) == FAdd(Tsat_eau(P), EPE_duhring(xm))

----------------------------------------------------------------------------
(* EvaporateurMultiple *)

U_base == <<2500, 2200, 1800, 1600, 1500>>

\* np.linspace(2.5, 0.15, n), in 1/PUnit bar
P_linspace(n) ==
    [i \in 1..n |-> IF n = 1 THEN (5 * PUnit) \div 2
                    ELSE (5 * PUnit) \div 2 - (((47 * PUnit) \div 20) * (i - 1)) \div (n - 1)]

\* the range check of __init__ with the lower limit off by one
CheckRange_from1(n) == 1 <= n /\ n <= 5

\* if not (2 <= self.n <= 5)
CheckRange(n) == 2 <= n /\ n <= 5

\* the last check of __init__ with < for <=
CheckConcentre_strict(xF, xout) == RLt(xF, xout) \/ xF = xout

\* if self.xout <= self.xF: raise; the check passes when xout > xF
CheckConcentre(xF, xout) == ~RLe(xout, xF)

\* the three checks of __init__, in order: the message raised, or "ok"
InitChecks(n, xF, xout) ==
    IF ~CheckRange(n) THEN "n_effets"
    ELSE IF ~(RLt(RZero, xF) /\ RLt(xF, RInt(1)) /\ RLt(RZero, xout) /\ RLt(xout, RInt(1)))
         THEN "fractions"
    ELSE IF ~CheckConcentre(xF, xout) THEN "xout"
    ELSE "ok"

NewEvaporateur(F, xF, xout, T_feed, Psteam, n) ==
    [F |-> F, xF |-> xF, xout |-> xout, T_feed |-> T_feed, Psteam |-> Psteam, n |-> n,
     P_eff |-> P_linspace(n),
     U_eff |-> SubSeq(U_base, 1, n),
     effets |-> [i \in 1..n |-> [P_bar |-> P_linspace(n)[i], U |-> U_base[i]]]]

\* the liquid recurrence with the vapour added instead of removed
RECURSIVE L_bilan_plus(_, _, _)
L_bilan_plus(F, V, i) ==
    IF i = 1 THEN <<RAdd(F, V[1])>>
    ELSE LET p == L_bilan_plus(F, V, i - 1) IN Append(p, RAdd(p[i - 1], V[i]))

RECURSIVE L_bilan(_, _, _)
L_bilan(F, V, i) ==
    IF i = 1 THEN <<RSub(F, V[1])>>
    ELSE LET p == L_bilan(F, V, i - 1) IN Append(p, RSub(p[i - 1], V[i]))

\* the concentrations taken from the liquid of the effect before
RECURSIVE x_bilan_decale(_, _, _, _)
x_bilan_decale(F, xF, L, i) ==
    IF i = 1 THEN <<RDivNaN(RMul(F, xF), L[1])>>
    ELSE LET p == x_bilan_decale(F, xF, L, i - 1)
         IN  Append(p, RDivNaN(RMul(F, xF), L[i - 1]))

RECURSIVE x_bilan(_, _, _, _)
x_bilan(F, xF, L, i) ==
    IF i = 1 THEN <<RDivNaN(RMul(F, xF), L[1])>>
    ELSE LET p == x_bilan(F, xF, L, i - 1)
         IN  Append(p, RDivNaN(RMulNaN(p[i - 1], L[i - 1]), L[i]))

bilan_matiere(s) ==
    LET Lout == RDiv(RMul(s.F, s.xF), s.xout)
        Vtot == RSub(s.F, Lout)
        V    == [i \in 1..s.n |-> RDiv(Vtot, RInt(s.n))]
        L    == L_bilan(s.F, V, s.n)
        x    == x_bilan(s.F, s.xF, L, s.n)
    IN  [L |-> L, V |-> V, x |-> x, Lout |-> Lout, Vtot |-> Vtot]

RECURSIVE FSum(_, _)
FSum(q, i) == IF i = 0 THEN FZero ELSE FAdd(FSum(q, i - 1), q[i])

\* the driving temperature difference of effect i before the floor of 1 K
dT_brut(s, Teb, i) ==
    IF i = 1 THEN FSub(FAdd(Tsat_eau(s.Psteam), FInt(10)), Teb[1])
    ELSE FSub(Teb[i - 1], Teb[i])

\* dT = max(..., 1.0)
dT_effet(s, Teb, i) == FMax(dT_brut(s, Teb, i), FInt(1))

\* A[i] = Q[i] / (U * dT)
A_effet(s, Q, Teb, i) ==
    FDiv(Q[i], FMul(FInt(s.effets[i].U), dT_effet(s, Teb, i)))

\* E = Vtot / S_h if S_h > 0 else 0.0
Economie(Vtot, S_h) == IF FLt(FZero, S_h) THEN FDiv(FRat(Vtot), S_h) ELSE FZero

\* the live steam charged with the duty of the first effect only
Vapeur_chauffe_effet1(Q, n, lambda_steam) == FDiv(Q[1], lambda_steam)

\* S_s = Q_tot / lambda_steam, Q_tot = np.sum(Q)
Vapeur_chauffe(Q, n, lambda_steam) == FDiv(FSum(Q, n), lambda_steam)

simuler(s) ==
    LET b   == bilan_matiere(s)
        Teb == [i \in 1..s.n |-> Teb_solution(s.effets[i].P_bar, FRat(b.x[i]))]
        lambda_steam == chaleur_latente_bar(s.Psteam)
        V_s == [i \in 1..s.n |-> FDiv(FRat(b.V[i]), FInt(3600))]
        Q   == [i \in 1..s.n |-> FMul(V_s[i], chaleur_latente_bar(s.effets[i].P_bar))]
        A   == [i \in 1..s.n |-> A_effet(s, Q, Teb, i)]
        S_s == Vapeur_chauffe(Q, s.n, lambda_steam)
        S_h == FMul(S_s, FInt(3600))
    IN  [L |-> b.L, V |-> b.V, x |-> b.x, T |-> Teb, A |-> A,
         A_totale |-> FSum(A, s.n), S |-> S_h, E |-> Economie(b.Vtot, S_h)]

----------------------------------------------------------------------------
(* Inputs of the evaporator train *)

\* effect counts tried: 0 .. MaxEffets
MaxEffets == 6

\* feed flows (kg/h); the constructor checks none of them
FSet == {-1000, 0, 1000, 20000}

\* mass fractions, in hundredths
FracSet == {0, 15, 16, 50, 65, 100, 120}

\* steam pressures, in 1/PUnit bar: 0.1, 0.5, 1, 3.5 and 20 bar
PsteamSet == {PUnit \div 10, PUnit \div 2, PUnit, (7 * PUnit) \div 2, 20 * PUnit}

NoObject == [n |-> 0]

NoResult == [E |-> "none"]

EInit ==
    /\ epc = "idle"
    /\ args = NoObject
    /\ self = NoObject
    /\ res = NoResult

\* EvaporateurMultiple(F, xF, xout, T_feed_C, P_steam_bar, n_effets)
Construct ==
    /\ epc = "idle"
    /\ \E F \in FSet, xFc \in FracSet, xoutc \in FracSet, Ps \in PsteamSet, n \in 0..MaxEffets :
         LET xF   == Rat(xFc, 100)
             xout == Rat(xoutc, 100)
         IN  /\ args' = [F |-> F, xF |-> xF, xout |-> xout, Psteam |-> Ps, n |-> n]
             /\ IF InitChecks(n, xF, xout) = "ok"
                THEN /\ epc' = "built"
                     /\ self' = NewEvaporateur(RInt(F), xF, xout, 85, Ps, n)
                ELSE /\ epc' = "ValueError"
                     /\ self' = NoObject
    /\ UNCHANGED res

\* evap.simuler()
Simuler ==
    /\ epc = "built"
    /\ res' = simuler(self)
    /\ epc' = "done"
    /\ UNCHANGED <<args, self>>

----------------------------------------------------------------------------
(* cristallisation.py.  Temperatures are integers in 0.001 degC,            *)
(* concentrations (C, Cs) integers in 0.0001 g/100 g, times in seconds;     *)
(* S, B, G, the grid, n and the moments are decimal floating point.         *)

N == 80

Max(a, b) == IF a < b THEN b ELSE a

\* L = np.linspace(0.0, 8e-4, N); dL = L[1] - L[0]
dL == FDiv(FNorm(8, -4), FInt(N - 1))

L_grid == [i \in 1..N |-> FMul(FInt(i - 1), dL)]

\* np.sum of 0.5 * (y[:-1] + y[1:]) * dx over the intervals lo .. hi, by halves
RECURSIVE TrapzSum(_, _, _, _)
TrapzSum(y, x, lo, hi) ==
    IF lo = hi
    THEN FMul(FMul(FNorm(5, -1), FAdd(y[lo], y[lo + 1])), FSub(x[lo + 1], x[lo]))
    ELSE LET mid == (lo + hi) \div 2
         IN  FAdd(TrapzSum(y, x, lo, mid), TrapzSum(y, x, mid + 1, hi))

trapz_robuste(y, x) == IF Len(y) < 2 THEN FZero ELSE TrapzSum(y, x, 1, Len(y) - 1)

\* C* = 64.18 + 0.1337 T + 5.52e-3 T^2 - 9.73e-6 T^3
solubilite(Tm) ==
    LET T2 == MulDiv(Tm, Tm, 1000)
        T3 == MulDiv(T2, Tm, 1000)
    IN  641800 + MulDiv(Tm, 1337, 1000) + MulDiv(T2, 552, 10000) - MulDiv(T3, 973, 10000000)

\* the supersaturation without its floor at 0
sursaturation_brute(Cc, Cs) == FDiv(FInt(Cc - Cs), FInt(Cs))

\* max((C - Cs) / Cs, 0.0)
sursaturation(Cc, Cs) == FMax(FDiv(FInt(Cc - Cs), FInt(Cs)), FZero)

\* kb * S^2.5 * max(mT, 1e-12)^0.5
nucleation(S, mT) ==
    FMul(FMul(FNorm(15, 9), FMul(FMul(S, S), FSqrt(S))), FSqrt(FMax(mT, FNorm(1, -12))))

\* kg * S^1.5 * exp(-Eg / (R * (T + 273.15)))
croissance(S, Tm) ==
    FMul(FMul(FNorm(28, -8), FMul(S, FSqrt(S))),
         FExp(FNeg(FDiv(FInt(45000), FMul(FNorm(8314, -3), FNorm(Tm + 273150, -3))))))

moments(Lg, nn) ==
    LET m0 == trapz_robuste(nn, Lg)
        m1 == trapz_robuste([i \in 1..Len(nn) |-> FMul(Lg[i], nn[i])], Lg)
        m2 == trapz_robuste([i \in 1..Len(nn) |-> FMul(FMul(Lg[i], Lg[i]), nn[i])], Lg)
        Lmean == FDiv(m1, m0)
        var == FMax(FSub(FDiv(m2, m0), FMul(Lmean, Lmean)), FZero)
    IN  IF FLe(m0, FZero) THEN <<FZero, FZero>>
        ELSE <<Lmean, IF FLt(FZero, Lmean) THEN FDiv(FSqrt(var), Lmean) ELSE FZero>>

\* the update without the floor at 0
Clamp_absent(nn) == nn

\* n = np.maximum(n_new, 0.0)
Clamp(nn) == [i \in 1..Len(nn) |-> IF nn[i].m < 0 THEN FZero ELSE nn[i]]

\* the upwind step taken when G > 0 (index 1 is the code's n[0])
Transport(nn, B, G, dt) ==
    Clamp([i \in 1..Len(nn) |->
              IF i = 1 THEN FDiv(B, FMax(G, FNorm(1, -12)))
              ELSE FSub(nn[i], FDiv(FMul(FMul(FInt(dt), G), FSub(nn[i], nn[i - 1])), dL))])

\* the upwind step taken whatever the sign of G
Advection_sans_garde(nn, B, G, dt) == Transport(nn, B, G, dt)

\* if G > 0.0: the upwind step; otherwise n is left as it is
Advection(nn, B, G, dt) == IF FLt(FZero, G) THEN Transport(nn, B, G, dt) ELSE nn

\* C = max(C - 0.02 * S * dt / 60.0, Cs)
Depletion(Cc, Cs, S, dt) ==
    Max(Cc - FFix(FDiv(FMul(FMul(FNorm(2, -2), S), FInt(dt)), FInt(60)), 4), Cs)

\* the three cooling profiles; with duree <= 0 the code divides t by 1e-12
Refroidissement(profil, Tm, T_init, t, duree, S) ==
    IF profil = "lineaire" THEN
        IF duree > 0 THEN T_init - MulDiv(T_init - 35000, Rat(t, duree).n, Rat(t, duree).d)
        ELSE IF t = 0 THEN T_init
        ELSE T_init - (T_init - 35000) * t * Pow10(12)
    ELSE IF profil = "expo" THEN
        35000 + MulDiv(T_init - 35000, FFix(FExp(FMul(FNorm(-3, -3), FInt(t))), 4), 10000)
    ELSE Max(Tm - FFix(FMul(FNorm(3, -1), FSub(S, FNorm(5, -2))), 3), 35000)

\* a step that is refused whenever it is not positive
ArangeRaises_nonpos(stop, step) == step <= 0

\* np.arange divides by its step: a step of 0 raises
ArangeRaises(stop, step) == step = 0

\* a range that includes its stop when the step divides it
ArangeLen_ferme(stop, step) ==
    LET a == IF step < 0 THEN -stop ELSE stop
        b == Abs(step)
    IN  IF a > b /\ a % b = 0 THEN a \div b + 1 ELSE Max(-((-a) \div b), 0)

\* len(np.arange(0.0, stop, step)) = max(ceil(stop / step), 0), step # 0
ArangeLen(stop, step) ==
    LET a == IF step < 0 THEN -stop ELSE stop
        b == Abs(step)
    IN  Max(-((-a) \div b), 0)

arange(stop, step) == [j \in 1..ArangeLen(stop, step) |-> (j - 1) * step]

----------------------------------------------------------------------------
(* Inputs of the crystallizer *)

\* durations of 1 .. MaxSteps time steps of 60 s are tried
MaxSteps == 3

\* initial concentrations, in 0.01 g/100 g: under saturation at 70 degC,
\* just over it, over it, and far over it
CinitSet == {6500, 9726, 10000, 10000000}

\* initial temperatures (degC)
TinitSet == {35, 70}

Profils == {"lineaire", "expo", "S_const"}

\* <<duree, dt>> in seconds
DureeDtSet ==
    {<<60 * j, 60>> : j \in 1..MaxSteps}
        \cup {<<100, 60>>, <<108000, 36000>>,
              <<0, 60>>, <<-100, 60>>, <<120, 0>>, <<0, 0>>, <<30, -60>>, <<120, -60>>}

NoHist == [t |-> <<>>, T |-> <<>>, S |-> <<>>, C |-> <<>>, Cs |-> <<>>,
           Lmean |-> <<>>, CV |-> <<>>]

CInit ==
    /\ cpc = "idle"
    /\ cargs = [dt |-> 0]
    /\ tvec = <<>>
    /\ it = 0
    /\ T_cur = 0
    /\ C_cur = 0
    /\ n_cur = <<>>
    /\ hist = NoHist

\* simuler_cristallisation_batch(M, C_init, T_init, duree, dt, profil) up to
\* the loop: np.arange raises when dt = 0
Call ==
    /\ cpc = "idle"
    /\ \E Ci \in CinitSet, Ti \in TinitSet, dd \in DureeDtSet, profil \in Profils :
          /\ cargs' = [M |-> 5000, C_init |-> Ci * 100, T_init |-> Ti * 1000,
                       duree |-> dd[1], dt |-> dd[2], profil |-> profil]
          /\ IF ArangeRaises(dd[1] + dd[2], dd[2])
             THEN /\ cpc' = "raised"
                  /\ UNCHANGED <<tvec, T_cur, C_cur, n_cur>>
             ELSE /\ cpc' = "loop"
                  /\ tvec' = arange(dd[1] + dd[2], dd[2])
                  /\ T_cur' = Ti * 1000
                  /\ C_cur' = Ci * 100
                  /\ n_cur' = [i \in 1..N |-> FZero]
    /\ UNCHANGED <<it, hist>>

\* one iteration of "for t in tvec"
Step ==
    /\ cpc = "loop"
    /\ it < Len(tvec)
    /\ LET t  == tvec[it + 1]
           Cs == solubilite(T_cur)
           S  == sursaturation(C_cur, Cs)
           mT == trapz_robuste([i \in 1..N |-> FMul(FMul(FMul(L_grid[i], L_grid[i]), L_grid[i]), n_cur[i])], L_grid)
           B  == nucleation(S, mT)
           G  == croissance(S, T_cur)
           n1 == Advection(n_cur, B, G, cargs.dt)
           C1 == Depletion(C_cur, Cs, S, cargs.dt)
           T1 == Refroidissement(cargs.profil, T_cur, cargs.T_init, t, cargs.duree, S)
           mo == moments(L_grid, n1)
       IN  /\ n_cur' = n1
           /\ C_cur' = C1
           /\ T_cur' = T1
           /\ hist' = [t |-> Append(hist.t, t), T |-> Append(hist.T, T1),
                       S |-> Append(hist.S, S), C |-> Append(hist.C, C1),
                       Cs |-> Append(hist.Cs, Cs), Lmean |-> Append(hist.Lmean, mo[1]),
                       CV |-> Append(hist.CV, mo[2])]
    /\ it' = it + 1
    /\ UNCHANGED <<cpc, cargs, tvec>>

\* return L, n, hist
Return ==
    /\ cpc = "loop"
    /\ it = Len(tvec)
    /\ cpc' = "done"
    /\ UNCHANGED <<cargs, tvec, it, T_cur, C_cur, n_cur, hist>>

----------------------------------------------------------------------------
(* thermodynamique.py: lmtd, on scalars *)

\* the default of the parameter eps
eps_lmtd == FNorm(1, -12)

\* 0.0 when a difference is <= 0, dT1 when the two are within eps, otherwise
\* (dT1 - dT2) / log((dT1 + eps) / (dT2 + eps))
lmtd(dT1, dT2) ==
    IF FLe(dT1, FZero) \/ FLe(dT2, FZero) THEN FZero
    ELSE IF FLt(FAbs(FSub(dT1, dT2)), eps_lmtd) THEN dT1
    ELSE FDiv(FSub(dT1, dT2),
              FLn(FDiv(FAdd(dT1, eps_lmtd), FAdd(dT2, eps_lmtd))))

\* temperature differences tried (K), as <<mantissa, exponent>>: negative,
\* zero, below eps, a few eps, and ordinary ones
DeltaSet ==
    {<<-5, 0>>, <<0, 0>>, <<1, -13>>, <<5, -13>>, <<1, -11>>, <<111, -13>>,
     <<2, -11>>, <<5, -1>>, <<5, 0>>, <<10, 0>>, <<30, 0>>, <<100, 0>>}

LInit ==
    /\ lpc = "idle"
    /\ largs = <<FZero, FZero>>
    /\ lres = FZero

\* one call lmtd(dT1, dT2)
Lmtd ==
    /\ lpc = "idle"
    /\ \E d1 \in DeltaSet, d2 \in DeltaSet :
          /\ largs' = <<FNorm(d1[1], d1[2]), FNorm(d2[1], d2[2])>>
          /\ lres' = lmtd(FNorm(d1[1], d1[2]), FNorm(d2[1], d2[2]))
    /\ lpc' = "done"

----------------------------------------------------------------------------
(* Specifications *)

Init == EInit /\ CInit /\ LInit

CNext == (Call \/ Step \/ Return) /\ UNCHANGED evars /\ UNCHANGED lvars

SpecCrist == Init /\ [][CNext]_vars

ENext == (Construct \/ Simuler) /\ UNCHANGED cvars /\ UNCHANGED lvars

SpecEvap == Init /\ [][ENext]_vars

LNext == Lmtd /\ UNCHANGED evars /\ UNCHANGED cvars

SpecLmtd == Init /\ [][LNext]_vars

\* a caller runs one of the two engines, or calls lmtd
Next ==
    \/ ENext /\ cpc = "idle" /\ lpc = "idle"
    \/ CNext /\ epc = "idle" /\ lpc = "idle"
    \/ LNext /\ epc = "idle" /\ cpc = "idle"

Spec == Init /\ [][Next]_vars

----------------------------------------------------------------------------
(* Properties of the evaporator train *)

RECURSIVE RSum(_, _)
RSum(q, i) == IF i = 0 THEN RZero ELSE RAdd(RSum(q, i - 1), q[i])

Constructed == epc \in {"built", "done"}

\* the inputs __init__ refuses, written on the raw arguments
BadArgs ==
    \/ args.n < 2 \/ args.n > 5
    \/ args.xF.n <= 0 \/ args.xF.n >= args.xF.d
    \/ args.xout.n <= 0 \/ args.xout.n >= args.xout.d
    \/ args.xout.n * args.xF.d <= args.xF.n * args.xout.d

\* C1: the constructor raises ValueError, with no object and no balance
\* computed, exactly when the effect count is outside 2..5, or xF or xout is
\* not strictly between 0 and 1, or xout <= xF; otherwise it succeeds and
\* builds exactly n_effets effects.
C1_ConstructorValidation ==
    epc # "idle" =>
        /\ (epc = "ValueError") <=> BadArgs
        /\ epc = "ValueError" => (self = NoObject /\ res = NoResult)
        /\ Constructed => (Len(self.effets) = args.n /\ self.n = args.n)

\* a refusal that rests on the last check alone: xout = xF, all else valid
C1_Witness ==
    /\ epc = "ValueError"
    /\ args.n = 3
    /\ args.xF = Rat(15, 100)
    /\ args.xout = Rat(15, 100)

\* C2: for an accepted input with F > 0 the liquid flows of the result
\* strictly decrease and the mass fractions strictly increase from effect 1
\* to effect n.
C2_MonotoneProfiles ==
    (epc = "done" /\ args.F > 0) =>
        \A i \in 2..args.n :
            /\ RLt(res.L[i], res.L[i - 1])
            /\ RLt(res.x[i - 1], res.x[i])

C2_Witness ==
    /\ epc = "done"
    /\ args.F > 0
    /\ args.n = 5
    /\ RLt(res.L[5], res.L[1])

\* C3 as stated: for every accepted input the economy E of the result
\* satisfies 0 < E <= n_effets.
C3_EconomyBounds_AllInputs ==
    epc = "done" => (FLt(FZero, res.E) /\ FLe(res.E, FInt(args.n)))

\* C3 amended: for every accepted input with feed flow F > 0 the economy E
\* satisfies 0 < E <= n_effets (with F <= 0 the steam flow is not positive
\* and E is reported as 0).
C3_EconomyBounds ==
    (epc = "done" /\ args.F > 0) =>
        (FLt(FZero, res.E) /\ FLe(res.E, FInt(args.n)))

\* steam at 0.1 bar (latent heat above that of every effect): E exceeds 1
C3_Witness ==
    /\ epc = "done"
    /\ args.F > 0
    /\ args.Psteam = PUnit \div 10
    /\ FLt(FInt(1), res.E)

\* Scenario A: F = 20000 kg/h, xF = 0.15, xout = 0.65, 3 effects, 3.5 bar
ScenarioA ==
    /\ args.F = 20000
    /\ args.xF = Rat(15, 100)
    /\ args.xout = Rat(65, 100)
    /\ args.n = 3
    /\ args.Psteam = (7 * PUnit) \div 2

\* C4: in scenario A simuler returns an economy between 2.0 and 3.0 and a
\* total area greater than 0.
C4_ScenarioA_Economy ==
    (epc = "done" /\ ScenarioA) =>
        /\ FLe(FInt(2), res.E)
        /\ FLe(res.E, FInt(3))
        /\ FLt(FZero, res.A_totale)

\* fractions of scenario B: xF = 0.15, xout = 0.16
ScenarioB_Fractions == args.xF = Rat(15, 100) /\ args.xout = Rat(16, 100)

\* C5 as stated: a train with one effect, xF = 0.15 and xout = 0.16 is
\* accepted, and its result has total vapor F * (1 - 0.15/0.16).
C5_OneEffectAccepted ==
    (epc # "idle" /\ args.n = 1 /\ ScenarioB_Fractions) =>
        /\ Constructed
        /\ epc = "done" => RSum(res.V, args.n) = RMul(RInt(args.F), Rat(1, 16))

\* C5 amended: with effect_count = 1 the constructor raises ValueError (the
\* supported counts are 2..5); with each supported count, xF = 0.15,
\* xout = 0.16 and F > 0 the total vapor is F * (1 - 0.15/0.16) = F/16 and
\* the steam flow is positive and, for steam between 0.1 and 20 bar, below
\* twice the total vapor.
C5_MinimalConcentration ==
    (epc # "idle" /\ ScenarioB_Fractions) =>
        /\ args.n = 1 => epc = "ValueError"
        /\ (epc = "done" /\ args.F > 0) =>
              /\ RSum(res.V, args.n) = RMul(RInt(args.F), Rat(1, 16))
              /\ FLt(FZero, res.S)
              /\ FLt(res.S, FRat(RMul(RInt(args.F), Rat(1, 8))))

C5_Witness ==
    /\ epc = "done"
    /\ ScenarioB_Fractions
    /\ args.n = 2
    /\ args.F = 1000
    /\ RSum(res.V, 2) = Rat(125, 2)

\* C6: whenever the driving temperature difference of an effect (heating
\* medium minus boiling temperature) is non-positive, the area reported for
\* that effect is zero (and the result is still returned).
C6_ZeroAreaWithoutDrivingForce ==
    epc = "done" =>
        \A i \in 1..args.n :
            FLe(dT_brut(self, res.T, i), FZero) => res.A[i] = FZero

----------------------------------------------------------------------------
(* Properties of the crystallizer *)

\* the growth rate the next iteration computes
G_cur == croissance(sursaturation(C_cur, solubilite(T_cur)), T_cur)

AllZero(nn) == \A i \in 1..Len(nn) : nn[i] = FZero

\* C7: after every time step, under every cooling profile, every entry of
\* the number density n is >= 0.
C7_DensityNonNegative ==
    \A i \in 1..Len(n_cur) : n_cur[i].m >= 0

\* a bin left at 0 below a populated one: the floor has cut a negative value
C7_Witness ==
    /\ it >= 3
    /\ \E i \in 2..(N - 1) : n_cur[i] = FZero /\ n_cur[i + 1].m > 0 /\ n_cur[i - 1].m > 0

\* C8: the supersaturation S recorded at every step is >= 0, and the
\* concentration C recorded at a step is at least the solubility Cs recorded
\* at that step.
C8_SupersaturationNonNegative ==
    \A j \in 1..Len(hist.S) :
        /\ hist.S[j].m >= 0
        /\ hist.C[j] >= hist.Cs[j]

\* an undersaturated start: S is floored to 0 and C is raised to Cs
C8_Witness ==
    /\ Len(hist.S) >= 1
    /\ cargs.C_init < hist.Cs[1]
    /\ hist.S[1] = FZero
    /\ hist.C[1] = hist.Cs[1]

\* C9 as stated: a call with a non-positive duration or a non-positive time
\* step raises immediately and returns no history.
C9_NonPositiveRaises ==
    (cpc # "idle" /\ (cargs.duree <= 0 \/ cargs.dt <= 0)) => cpc = "raised"

\* C9 amended: the function checks neither argument.  Only dt = 0 raises
\* (out of np.arange, before any history exists).  With duree <= 0 and
\* dt > 0, or with dt < 0 < duree, nothing is raised: the loop runs at most
\* once and a history of that many steps is returned.
C9_NoValidation ==
    cpc # "idle" =>
        /\ (cpc = "raised") <=> (cargs.dt = 0)
        /\ cpc = "raised" => hist = NoHist
        /\ ((cargs.dt > 0 /\ cargs.duree <= 0) \/ (cargs.dt < 0 /\ cargs.duree > 0)) =>
              /\ Len(tvec) <= 1
              /\ cpc = "done" => Len(hist.t) = Len(tvec)

\* a duration of 0: one step is simulated and returned
C9_Witness ==
    /\ cpc = "done"
    /\ cargs.duree = 0
    /\ cargs.dt > 0
    /\ Len(hist.t) = 1

\* C10: an iteration whose growth rate G is <= 0 leaves n as it was; the
\* first S recorded for a start below the solubility is 0; and n is all-zero
\* as long as no recorded S has been positive.
C10_NoGrowthNoChange ==
    /\ [][(cpc = "loop" /\ it' = it + 1 /\ FLe(G_cur, FZero)) => n_cur' = n_cur]_vars
    /\ [](\A j \in 1..Len(hist.S) :
              (j = 1 /\ cargs.C_init < solubilite(cargs.T_init)) => hist.S[j] = FZero)
    /\ []((cpc \in {"loop", "done"} /\ \A j \in 1..Len(hist.S) : hist.S[j] = FZero)
              => AllZero(n_cur))

\* an undersaturated start whose first two steps record S = 0 and leave n
\* empty, and which nucleates once cooling has brought Cs below C
C10_Witness ==
    /\ cpc # "idle"
    /\ cargs.C_init < solubilite(cargs.T_init)
    /\ Len(hist.S) >= 3
    /\ hist.S[1] = FZero
    /\ hist.S[2] = FZero
    /\ hist.S[Len(hist.S)].m > 0
    /\ n_cur[1].m > 0

----------------------------------------------------------------------------
(* Properties of lmtd *)

FMin(a, b) == IF FLt(b, a) THEN b ELSE a

\* C11: lmtd(dT1, dT2) is 0 when dT1 <= 0 or dT2 <= 0, is dT1 when both are
\* positive and |dT1 - dT2| < eps, and in every other case lies strictly
\* between min(dT1, dT2) and max(dT1, dT2).
C11_LmtdBetween ==
    lpc = "done" =>
        LET dT1 == largs[1]
            dT2 == largs[2]
        IN  IF FLe(dT1, FZero) \/ FLe(dT2, FZero) THEN lres = FZero
            ELSE IF FLt(FAbs(FSub(dT1, dT2)), eps_lmtd) THEN lres = dT1
            ELSE FLt(FMin(dT1, dT2), lres) /\ FLt(lres, FMax(dT1, dT2))

----------------------------------------------------------------------------
(* Properties of the crystallizer's time stepping and cooling *)

\* ceil(a / b) for a >= 0 and b > 0
CeilDiv(a, b) == (a + b - 1) \div b

HistLengths == {Len(hist.t), Len(hist.T), Len(hist.S), Len(hist.C), Len(hist.Cs),
                Len(hist.Lmean), Len(hist.CV)}

\* C12: with duree > 0 and dt > 0 the call ends after exactly
\* ceil(duree / dt) + 1 steps; the recorded times are 0, dt, 2 dt, ...,
\* strictly increasing; the last one is the first multiple of dt that is
\* >= duree; and the seven series of hist all have that length.
C12_StepCount ==
    (cpc \in {"loop", "done"} /\ cargs.duree > 0 /\ cargs.dt > 0) =>
        LET k == CeilDiv(cargs.duree, cargs.dt)
        IN  /\ it <= k + 1
            /\ HistLengths = {it}
            /\ \A j \in 1..Len(hist.t) : hist.t[j] = (j - 1) * cargs.dt
            /\ \A j \in 1..(Len(hist.t) - 1) : hist.t[j] < hist.t[j + 1]
            /\ cpc = "done" =>
                  /\ it = k + 1
                  /\ hist.t[it] >= cargs.duree
                  /\ hist.t[it] - cargs.dt < cargs.duree

\* a duration that is no multiple of dt: 100 s by steps of 60 s ends at 120 s
C12_Witness ==
    /\ cpc = "done"
    /\ cargs.duree = 100
    /\ cargs.dt = 60
    /\ hist.t = <<0, 60, 120>>

----------------------------------------------------------------------------
(* Properties of the mass balance *)

\* solute is conserved in the balance returned for the object built
BilanConserve ==
    LET b   == bilan_matiere(self)
        sol == RMul(self.F, self.xF)
    IN  /\ res.L = b.L /\ res.V = b.V /\ res.x = b.x
        /\ \A i \in 1..self.n : res.x[i] # RNaN /\ RMul(res.L[i], res.x[i]) = sol
        /\ res.L[1] = RSub(self.F, res.V[1])
        /\ \A i \in 2..self.n : res.L[i] = RSub(res.L[i - 1], res.V[i])
        /\ b.Lout = RDiv(sol, self.xout)
        /\ b.Vtot = RSub(self.F, b.Lout)
        /\ RSum(res.V, self.n) = b.Vtot
        /\ res.L[self.n] = b.Lout
        /\ res.x[self.n] = self.xout

\* C13 as stated: for every input the constructor accepts, L[i] * x[i] =
\* F * xF at every effect, L[i] = L[i-1] - V[i], the vapours sum to
\* Vtot = F - Lout, and the last effect has L = Lout = F * xF / xout and
\* x = xout.
C13_SoluteConserved_AllInputs ==
    epc = "done" => BilanConserve

\* C13 amended: the same, for every accepted input whose feed flow F is not
\* 0.  With F = 0 (which the constructor accepts) every L[i] is 0 and every
\* x[i] is 0/0 = nan, so neither L[i] * x[i] = F * xF nor x[n-1] = xout holds.
C13_SoluteConserved ==
    (epc = "done" /\ args.F # 0) => BilanConserve

\* scenario A: 20000 kg/h from 15 % to 65 % in three effects leaves 60000/13
\* kg/h at 65 %
C13_Witness ==
    /\ epc = "done"
    /\ args.F = 20000
    /\ args.n = 3
    /\ args.xF = Rat(15, 100)
    /\ res.L[3] = Rat(60000, 13)
    /\ res.x[3] = Rat(65, 100)
    /\ res.x[1] # res.x[3]

\* C14: with T_init >= 35, duree > 0 and dt > 0, every recorded temperature
\* lies between 35 degC and T_init inclusive, and the recorded temperatures
\* never increase from one step to the next, under each of the three
\* cooling profiles.
C14_TemperatureBounds ==
    (cpc \in {"loop", "done"} /\ cargs.T_init >= 35000 /\ cargs.duree > 0 /\ cargs.dt > 0) =>
        /\ \A j \in 1..Len(hist.T) : 35000 <= hist.T[j] /\ hist.T[j] <= cargs.T_init
        /\ \A j \in 1..(Len(hist.T) - 1) : hist.T[j + 1] <= hist.T[j]

====
